---- MODULE Spec2Model ----
(***************************************************************************)
(* GenCast: article debriefing generator (src/src/index.ts).               *)
(*                                                                         *)
(* Strings are sequences of one-character strings, so that trim, split,    *)
(* whitespace collapsing and substring search are computed and not         *)
(* assumed.  Inputs never contain a carriage return or a double quote      *)
(* (csv-parser's CR stripping and quoting are outside the model), and no   *)
(* CSV header is a canonical array index (JavaScript would list such a     *)
(* key first in Object.values).                                            *)
(***************************************************************************)
EXTENDS Integers, Sequences, FiniteSets

VARIABLES pc, env, useOpenAI, useClaude, csvState, csvContent, links, i,
          doc, article, prompt, response, debriefings, report, exitCode, events

vars == <<pc, env, useOpenAI, useClaude, csvState, csvContent, links, i,
          doc, article, prompt, response, debriefings, report, exitCode, events>>

----------------------------------------------------------------------------
(* Bounds of the model *)

MaxLines == 3
MaxRows == 3
MaxDebriefings == 2
MaxNodes == 3

----------------------------------------------------------------------------
(* JavaScript values and string primitives *)

\* the JavaScript value undefined (a property that is absent)
Undefined == <<"<undefined>">>

\* truthiness of a value that is a string or undefined
Truthy(v) == v # Undefined /\ v # <<>>

\* a || b
Or(a, b) == IF Truthy(a) THEN a ELSE b

NL == "\n"

WhiteSpace == {" ", "\t", NL}

RECURSIVE TrimStart(_)
TrimStart(s) ==
  IF s = <<>> THEN <<>>
  ELSE IF Head(s) \in WhiteSpace THEN TrimStart(Tail(s)) ELSE s

RECURSIVE TrimEnd(_)
TrimEnd(s) ==
  IF s = <<>> THEN <<>>
  ELSE IF s[Len(s)] \in WhiteSpace THEN TrimEnd(SubSeq(s, 1, Len(s) - 1)) ELSE s

\* String.prototype.trim
Trim(s) == TrimEnd(TrimStart(s))

\* String.prototype.split on a one-character separator
RECURSIVE Split(_, _)
Split(s, sep) ==
  IF \A k \in 1..Len(s) : s[k] # sep THEN <<s>>
  ELSE LET p == CHOOSE k \in 1..Len(s) :
                   s[k] = sep /\ \A j \in 1..(k - 1) : s[j] # sep
       IN  <<SubSeq(s, 1, p - 1)>> \o Split(SubSeq(s, p + 1, Len(s)), sep)

\* Array.prototype.join
RECURSIVE Join(_, _)
Join(parts, sep) ==
  IF parts = <<>> THEN <<>>
  ELSE IF Len(parts) = 1 THEN parts[1]
  ELSE parts[1] \o sep \o Join(Tail(parts), sep)

DigitChars == <<"0", "1", "2", "3", "4", "5", "6", "7", "8", "9">>

\* decimal rendering of a natural number, as template literals render it
RECURSIVE NumToString(_)
NumToString(n) ==
  IF n < 10 THEN <<DigitChars[n + 1]>>
  ELSE NumToString(n \div 10) \o <<DigitChars[(n % 10) + 1]>>

\* s has t at position p (1-based)
HasAt(s, t, p) == p + Len(t) - 1 <= Len(s) /\ SubSeq(s, p, p + Len(t) - 1) = t

----------------------------------------------------------------------------
(* csv-parser with its default options, as readCSVLinks uses it *)

\* the lines the parser sees: split at newline, a trailing newline opens no line
csvLines(content) ==
  LET parts == Split(content, NL)
  IN  IF parts[Len(parts)] = <<>> THEN SubSeq(parts, 1, Len(parts) - 1) ELSE parts

\* the cells of one line: an empty line has no cell
csvCells(line) == IF line = <<>> THEN <<>> ELSE Split(line, ",")

\* the key of cell number idx (0-based): its header, or _idx when there is none
csvKey(headers, idx) ==
  IF idx + 1 <= Len(headers) THEN headers[idx + 1] ELSE <<"_">> \o NumToString(idx)

\* row[key] = value on an object kept as a sequence of properties in
\* insertion order: a repeated key keeps its place and takes the new value
RowSet(row, key, value) ==
  IF \E k \in 1..Len(row) : row[k].key = key
  THEN [k \in 1..Len(row) |->
          IF row[k].key = key THEN [key |-> key, value |-> value] ELSE row[k]]
  ELSE Append(row, [key |-> key, value |-> value])

\* row.key
RowGet(row, key) ==
  IF \E k \in 1..Len(row) : row[k].key = key
  THEN row[CHOOSE k \in 1..Len(row) : row[k].key = key].value
  ELSE Undefined

\* Object.values(row)[0]
FirstValue(row) == IF row = <<>> THEN Undefined ELSE row[1].value

RECURSIVE csvWriteRow(_, _, _)
csvWriteRow(headers, cells, n) ==
  IF n = 0 THEN <<>>
  ELSE RowSet(csvWriteRow(headers, cells, n - 1), csvKey(headers, n - 1), cells[n])

\* a slip: the parser is given headers: false and every line is a row
csvRowsNoHeaders(content) ==
  LET ls == csvLines(content)
  IN  [k \in 1..Len(ls) |-> csvWriteRow(<<>>, csvCells(ls[k]), Len(csvCells(ls[k])))]

\* the rows of the 'data' events: the first line is consumed as the headers
csvRows(content) ==
  LET ls == csvLines(content)
  IN  IF ls = <<>> THEN <<>>
      ELSE LET headers == csvCells(ls[1])
           IN  [k \in 1..(Len(ls) - 1) |->
                  csvWriteRow(headers, csvCells(ls[k + 1]), Len(csvCells(ls[k + 1])))]

----------------------------------------------------------------------------
(* readCSVLinks *)

KeyUrl == <<"u", "r", "l">>
KeyLink == <<"l", "i", "n", "k">>
KeyURL == <<"U", "R", "L">>
KeyLinkCap == <<"L", "i", "n", "k">>

\* row.url || row.link || row.URL || row.Link || Object.values(row)[0]
rowUrl(row) ==
  Or(RowGet(row, KeyUrl),
     Or(RowGet(row, KeyLink),
        Or(RowGet(row, KeyURL),
           Or(RowGet(row, KeyLinkCap), FirstValue(row)))))

RECURSIVE collectLinks(_)
collectLinks(rows) ==
  IF rows = <<>> THEN <<>>
  ELSE LET url == rowUrl(rows[Len(rows)])
           before == collectLinks(SubSeq(rows, 1, Len(rows) - 1))
       IN  IF Truthy(url) THEN Append(before, Trim(url)) ELSE before

\* a slip: a file without a link is reported as an error
readCSVLinksRejectEmpty(readable, content) ==
  IF readable /\ collectLinks(csvRows(content)) # <<>>
  THEN [status |-> "resolved", links |-> collectLinks(csvRows(content))]
  ELSE [status |-> "rejected", links |-> <<>>]

\* the promise readCSVLinks returns, settled
readCSVLinks(readable, content) ==
  IF readable
  THEN [status |-> "resolved", links |-> collectLinks(csvRows(content))]
  ELSE [status |-> "rejected", links |-> <<>>]

----------------------------------------------------------------------------
(* saveDebriefings *)

Repeat(c, n) == [k \in 1..n |-> c]

DividerWidth == 80

TxtArticleOpen == <<"=", "=", "=", " ", "A", "R", "T", "I", "C", "L", "E", " ">>
TxtArticleClose == <<" ", "=", "=", "=">>
TxtUrl == <<"U", "R", "L", ":", " ">>
TxtTitle == <<"T", "I", "T", "L", "E", ":", " ">>
TxtDebriefing == <<"D", "E", "B", "R", "I", "E", "F", "I", "N", "G", ":">>

\* the template literal of one entry; index is 0-based as in Array.map
renderEntry(debriefing, index) ==
  <<NL>> \o TxtArticleOpen \o NumToString(index + 1) \o TxtArticleClose \o <<NL>>
  \o TxtUrl \o debriefing.url \o <<NL>>
  \o TxtTitle \o debriefing.title \o <<NL>>
  \o <<NL>>
  \o TxtDebriefing \o <<NL>>
  \o debriefing.summary \o <<NL>>
  \o <<NL>>
  \o Repeat("=", DividerWidth) \o <<NL>>

\* a slip: the entries are joined with the empty string
renderDebriefingsJoinEmpty(ds) ==
  Join([k \in 1..Len(ds) |-> renderEntry(ds[k], k - 1)], <<>>)

\* debriefings.map(...).join('\n'): the text handed to fs.writeFileSync
renderDebriefings(ds) ==
  Join([k \in 1..Len(ds) |-> renderEntry(ds[k], k - 1)], <<NL>>)

----------------------------------------------------------------------------
(* fetchArticleContent: the extraction from a parsed document *)

(* A document is the sequence of the elements below <body> in document      *)
(* order; an element has a tag, a class, the text it holds before its       *)
(* children, and its parent (0 is the body).                                *)

\* k is n or lies below n
RECURSIVE IsWithin(_, _, _)
IsWithin(d, k, n) ==
  IF k = n THEN TRUE
  ELSE IF k = 0 THEN FALSE
  ELSE IsWithin(d, d[k].parent, n)

\* $('script, style').remove()
Removed(d, k) ==
  \E n \in 1..Len(d) : d[n].tag \in {"script", "style"} /\ IsWithin(d, k, n)

RECURSIVE ConcatText(_, _, _)
ConcatText(d, n, k) ==
  IF k > Len(d) THEN <<>>
  ELSE (IF IsWithin(d, k, n) /\ ~Removed(d, k) THEN d[k].text ELSE <<>>)
       \o ConcatText(d, n, k + 1)

\* the text of element n with its descendants; n = 0 is $('body').text()
ElementText(d, n) == ConcatText(d, n, 1)

Selector(tag, class) == [tag |-> tag, class |-> class]

contentSelectors ==
  << Selector("article", ""),
     Selector("", "content"),
     Selector("", "article-content"),
     Selector("", "post-content"),
     Selector("", "entry-content"),
     Selector("main", ""),
     Selector("", "main-content") >>

Matches(d, k, sel) ==
  /\ ~Removed(d, k)
  /\ IF sel.tag # "" THEN d[k].tag = sel.tag ELSE d[k].class = sel.class

\* $(selector): the matched elements in document order
Select(d, sel) == SelectSeq([k \in 1..Len(d) |-> k], LAMBDA k : Matches(d, k, sel))

\* $(selector).text(): the texts of the matched elements, concatenated
RECURSIVE SelectionText(_, _)
SelectionText(d, ns) ==
  IF ns = <<>> THEN <<>>
  ELSE ElementText(d, Head(ns)) \o SelectionText(d, Tail(ns))

\* content.replace(/\s+/g, ' ')
RECURSIVE CollapseWhiteSpace(_)
CollapseWhiteSpace(s) ==
  IF s = <<>> THEN <<>>
  ELSE IF Head(s) \in WhiteSpace
       THEN <<" ">> \o CollapseWhiteSpace(TrimStart(s))
       ELSE <<Head(s)>> \o CollapseWhiteSpace(Tail(s))

\* s.substring(0, n)
Substring0(s, n) == IF Len(s) <= n THEN s ELSE SubSeq(s, 1, n)

MaxContentLength == 4000

TxtNoTitle == <<"N", "o", " ", "t", "i", "t", "l", "e", " ", "f", "o", "u", "n", "d">>

\* $('h1').first().text().trim() || $('title').text().trim() || 'No title found'
extractTitle(d) ==
  LET h1 == Select(d, Selector("h1", ""))
      first == IF h1 = <<>> THEN <<>> ELSE <<Head(h1)>>
  IN  Or(Trim(SelectionText(d, first)),
         Or(Trim(SelectionText(d, Select(d, Selector("title", "")))), TxtNoTitle))

\* a slip: a selector whose text is empty does not end the loop
RECURSIVE firstSelectorTextSkipEmpty(_, _)
firstSelectorTextSkipEmpty(d, s) ==
  IF s > Len(contentSelectors) THEN <<>>
  ELSE IF /\ Select(d, contentSelectors[s]) # <<>>
          /\ Trim(SelectionText(d, Select(d, contentSelectors[s]))) # <<>>
       THEN Trim(SelectionText(d, Select(d, contentSelectors[s])))
       ELSE firstSelectorTextSkipEmpty(d, s + 1)

\* the for loop over contentSelectors, from selector number s on: the trimmed
\* text of the first selector that matches an element, '' when none does
RECURSIVE firstSelectorText(_, _)
firstSelectorText(d, s) ==
  IF s > Len(contentSelectors) THEN <<>>
  ELSE IF Select(d, contentSelectors[s]) # <<>>
       THEN Trim(SelectionText(d, Select(d, contentSelectors[s])))
       ELSE firstSelectorText(d, s + 1)

\* the content field: selector text, body fallback, clean-up, length limit
extractContent(d) ==
  LET found == firstSelectorText(d, 1)
      content == IF found = <<>> THEN Trim(ElementText(d, 0)) ELSE found
  IN  Substring0(Trim(CollapseWhiteSpace(content)), MaxContentLength)

\* the ArticleContent built from a response body
extractArticle(url, d) ==
  [url |-> url, title |-> extractTitle(d), content |-> extractContent(d)]

----------------------------------------------------------------------------
(* generateDebriefing: the prompt *)

CUSTOM_PROMPT ==
  <<"Y", "o", "u", " ", "a", "r", "e", " ", "a", "n", " ", "e", "x", "p",
     "e", "r", "t", " ", "a", "n", "a", "l", "y", "s", "t", " ", "r", "e",
     "v", "i", "e", "w", "i", "n", "g", " ", "n", "e", "w", "s", " ", "a",
     "r", "t", "i", "c", "l", "e", "s", ".", " ", "P", "l", "e", "a", "s",
     "e", " ", "p", "r", "o", "v", "i", "d", "e", " ", "a", " ", "c", "o",
     "m", "p", "r", "e", "h", "e", "n", "s", "i", "v", "e", " ", "d", "e",
     "b", "r", "i", "e", "f", "i", "n", "g", " ", "o", "f", " ", "t", "h",
     "e", " ", "f", "o", "l", "l", "o", "w", "i", "n", "g", " ", "a", "r",
     "t", "i", "c", "l", "e", " ", "t", "h", "a", "t", " ", "i", "n", "c",
     "l", "u", "d", "e", "s", ":", "\n", "\n", "1", ".", " ", "A", " ", "c",
     "o", "n", "c", "i", "s", "e", " ", "s", "u", "m", "m", "a", "r", "y",
     " ", "o", "f", " ", "t", "h", "e", " ", "m", "a", "i", "n", " ", "p",
     "o", "i", "n", "t", "s", "\n", "2", ".", " ", "K", "e", "y", " ", "t",
     "a", "k", "e", "a", "w", "a", "y", "s", " ", "a", "n", "d", " ", "i",
     "m", "p", "l", "i", "c", "a", "t", "i", "o", "n", "s", "\n", "3", ".",
     " ", "A", "n", "y", " ", "n", "o", "t", "a", "b", "l", "e", " ", "q",
     "u", "o", "t", "e", "s", " ", "o", "r", " ", "d", "a", "t", "a", " ",
     "p", "o", "i", "n", "t", "s", "\n", "4", ".", " ", "R", "e", "l", "e",
     "v", "a", "n", "c", "e", " ", "t", "o", " ", "c", "u", "r", "r", "e",
     "n", "t", " ", "e", "v", "e", "n", "t", "s", " ", "o", "r", " ", "t",
     "r", "e", "n", "d", "s", "\n", "\n", "P", "l", "e", "a", "s", "e", " ",
     "k", "e", "e", "p", " ", "t", "h", "e", " ", "d", "e", "b", "r", "i",
     "e", "f", "i", "n", "g", " ", "i", "n", "f", "o", "r", "m", "a", "t",
     "i", "v", "e", " ", "y", "e", "t", " ", "c", "o", "n", "c", "i", "s",
     "e", ",", " ", "a", "r", "o", "u", "n", "d", " ", "2", "0", "0", "-",
     "3", "0", "0", " ", "w", "o", "r", "d", "s", ".", "\n", "\n", "A", "r",
     "t", "i", "c", "l", "e", " ", "T", "i", "t", "l", "e", ":", " ", "{",
     "t", "i", "t", "l", "e", "}", "\n", "A", "r", "t", "i", "c", "l", "e",
     " ", "C", "o", "n", "t", "e", "n", "t", ":", " ", "{", "c", "o", "n",
     "t", "e", "n", "t", "}">>

PlaceholderTitle == <<"{", "t", "i", "t", "l", "e", "}">>
PlaceholderContent == <<"{", "c", "o", "n", "t", "e", "n", "t", "}">>

\* String.prototype.indexOf: the first position of t in s, 0 if there is none
IndexOf(s, t) ==
  LET hits == {p \in 1..(Len(s) - Len(t) + 1) : SubSeq(s, p, p + Len(t) - 1) = t}
  IN  IF hits = {} THEN 0 ELSE CHOOSE p \in hits : \A q \in hits : p <= q

\* GetSubstitution for a string pattern (no capture): in the replacement text
\* $$ is a dollar sign, $& the matched text, $` the text before the match and
\* $' the text after it; any other character stands for itself
RECURSIVE GetSubstitution(_, _, _, _)
GetSubstitution(matched, str, pos, rep) ==
  IF rep = <<>> THEN <<>>
  ELSE IF rep[1] = "$" /\ Len(rep) >= 2 /\ rep[2] \in {"$", "&", "`", "'"}
       THEN (CASE rep[2] = "$" -> <<"$">>
               [] rep[2] = "&" -> matched
               [] rep[2] = "`" -> SubSeq(str, 1, pos - 1)
               [] rep[2] = "'" -> SubSeq(str, pos + Len(matched), Len(str)))
            \o GetSubstitution(matched, str, pos, SubSeq(rep, 3, Len(rep)))
       ELSE <<rep[1]>> \o GetSubstitution(matched, str, pos, Tail(rep))

\* String.prototype.replace(pattern, replacement) with a string pattern: the
\* first occurrence only
Replace(s, pat, rep) ==
  LET pos == IndexOf(s, pat)
  IN  IF pos = 0 THEN s
      ELSE SubSeq(s, 1, pos - 1) \o GetSubstitution(pat, s, pos, rep)
           \o SubSeq(s, pos + Len(pat), Len(s))

\* CUSTOM_PROMPT.replace('{title}', title).replace('{content}', content)
buildPrompt(title, content) ==
  Replace(Replace(CUSTOM_PROMPT, PlaceholderTitle, title), PlaceholderContent, content)

----------------------------------------------------------------------------
(* generateDebriefing: the summary taken from a provider's response *)

TxtNoSummary == <<"N", "o", " ", "s", "u", "m", "m", "a", "r", "y", " ",
                  "g", "e", "n", "e", "r", "a", "t", "e", "d">>

\* response.choices[0]?.message?.content?.trim() || 'No summary generated'
\* (content is Undefined when a link of the optional chain is absent)
summaryOpenAI(content) ==
  Or(IF content = Undefined THEN Undefined ELSE Trim(content), TxtNoSummary)

\* response.content[0]?.type === 'text' ? response.content[0].text.trim()
\*                                      : 'No summary generated'
\* (type is "none" when response.content is empty)
summaryClaude(block) ==
  IF block.type = "text" THEN Trim(block.text) ELSE TxtNoSummary

\* the summary generateDebriefing assigns on the branch useOpenAI selects
summaryOf(openAI, resp) ==
  IF openAI THEN summaryOpenAI(resp.content) ELSE summaryClaude(resp.block)

\* the Debriefing generateDebriefing returns when the provider call returns
makeDebriefing(art, openAI, resp) ==
  [url |-> art.url, title |-> art.title, summary |-> summaryOf(openAI, resp)]

----------------------------------------------------------------------------
(* Module initialisation and main *)

\* the JavaScript value null
Null == <<"<null>">>

\* the null that fetchArticleContent returns, and article before any fetch
NoArticle == [url |-> Null, title |-> Null, content |-> Null]

\* the exit status of a process that is still running
NoExit == -1

\* !!process.env.OPENAI_API_KEY
selectOpenAI(e) == Truthy(e.OPENAI_API_KEY)

\* !!process.env.ANTHROPIC_API_KEY
selectClaude(e) == Truthy(e.ANTHROPIC_API_KEY)

\* a slip: the branch tests useClaude first
generateProviderClaudeFirst(openAI, claude) == IF claude THEN "Claude" ELSE "OpenAI"

\* the client generateDebriefing calls: the branch on useOpenAI
generateProvider(openAI, claude) == IF openAI THEN "OpenAI" ELSE "Claude"

Event(op, idx, provider, ok) == [op |-> op, idx |-> idx, provider |-> provider, ok |-> ok]

\* process.exit(code)
Exit(code) == exitCode' = code /\ pc' = "exited"

\* the values an environment variable takes: unset, empty, set
KeyValues == {Undefined, <<>>, <<"s", "k">>}

UrlA == <<"h", "t", "t", "p", ":", "/", "/", "a", ".", "c", "o", "m">>
UrlB == <<"h", "t", "t", "p", ":", "/", "/", "b", ".", "c", "o", "m">>

MainLines == {KeyUrl, <<" ">> \o UrlA \o <<" ">>, UrlB}

\* the files of at most n lines over a set of lines
FilesOver(lineSet, n) ==
  UNION {{Join(ls, <<NL>>) : ls \in [1..m -> lineSet]} : m \in 0..n}

\* the response body of the pages the run fetches
MainDoc ==
  << [tag |-> "h1", class |-> "", text |-> <<"T">>, parent |-> 0],
     [tag |-> "article", class |-> "", text |-> <<" ", "x", " ", " ", "y">>, parent |-> 0] >>

NoBlock == [type |-> "none", text |-> <<>>]

ResponseTexts == {<<>>, <<" ", " ">>, <<" ", "o", "k", " ">>}

\* what a chat completion carries at choices[0]?.message?.content
OpenAIResponses ==
  {[content |-> c, block |-> NoBlock] : c \in ResponseTexts \cup {Undefined}}

\* what a Claude message carries at content[0]
ClaudeResponses ==
  {[content |-> Undefined, block |-> b] :
     b \in {NoBlock} \cup {[type |-> "tool_use", text |-> <<>>]}
          \cup {[type |-> "text", text |-> t] : t \in ResponseTexts}}

NoResponse == [content |-> Undefined, block |-> NoBlock]

Idle ==
  /\ useOpenAI = FALSE
  /\ useClaude = FALSE
  /\ links = <<>>
  /\ i = 0
  /\ doc = <<>>
  /\ article = NoArticle
  /\ prompt = <<>>
  /\ response = NoResponse
  /\ debriefings = <<>>
  /\ report = Null
  /\ exitCode = NoExit
  /\ events = <<>>

Init ==
  /\ pc = "load"
  /\ env \in [OPENAI_API_KEY : KeyValues, ANTHROPIC_API_KEY : {Undefined, <<"s", "k">>}]
  /\ csvState \in {"missing", "unreadable", "ok"}
  /\ csvContent \in FilesOver(MainLines, MaxRows)
  /\ Idle

\* module load: the provider flags and the credential check
Startup ==
  /\ pc = "load"
  /\ useOpenAI' = selectOpenAI(env)
  /\ useClaude' = selectClaude(env)
  /\ IF ~selectOpenAI(env) /\ ~selectClaude(env)
     THEN Exit(1)
     ELSE pc' = "main" /\ UNCHANGED exitCode
  /\ UNCHANGED <<prompt, env, csvState, csvContent, links, i, doc, article, response,
                 debriefings, report, events>>

\* main up to fs.existsSync(csvPath)
MainStart ==
  /\ pc = "main"
  /\ IF csvState = "missing"
     THEN Exit(1)
     ELSE pc' = "read" /\ UNCHANGED exitCode
  /\ UNCHANGED <<prompt, env, useOpenAI, useClaude, csvState, csvContent, links, i, doc,
                 article, response, debriefings, report, events>>

\* a slip: the check links.length === 0 is missing
ReadLinksNoEmptyCheck ==
  /\ pc = "read"
  /\ LET r == readCSVLinks(csvState = "ok", csvContent)
     IN  /\ events' = Append(events, Event("read", 0, "", r.status = "resolved"))
         /\ IF r.status = "rejected"
            THEN Exit(1) /\ UNCHANGED links
            ELSE links' = r.links /\ pc' = "loop" /\ UNCHANGED exitCode
  /\ i' = 0
  /\ debriefings' = <<>>
  /\ UNCHANGED <<prompt, env, useOpenAI, useClaude, csvState, csvContent, doc, article,
                 response, report>>

\* await readCSVLinks(csvPath) and the check for no link; a rejection is
\* caught by main's catch
ReadLinks ==
  /\ pc = "read"
  /\ LET r == readCSVLinks(csvState = "ok", csvContent)
     IN  /\ events' = Append(events, Event("read", 0, "", r.status = "resolved"))
         /\ IF r.status = "rejected"
            THEN Exit(1) /\ UNCHANGED links
            ELSE /\ links' = r.links
                 /\ IF Len(r.links) = 0
                    THEN Exit(1)
                    ELSE pc' = "loop" /\ UNCHANGED exitCode
  /\ i' = 0
  /\ debriefings' = <<>>
  /\ UNCHANGED <<prompt, env, useOpenAI, useClaude, csvState, csvContent, doc, article,
                 response, report>>

\* a slip: break instead of continue
FetchFailsBreak ==
  /\ pc = "loop"
  /\ i < Len(links)
  /\ events' = Append(events, Event("fetch", i, "", FALSE))
  /\ article' = NoArticle
  /\ i' = Len(links)
  /\ UNCHANGED <<prompt, pc, env, useOpenAI, useClaude, csvState, csvContent, links, doc,
                 response, debriefings, report, exitCode>>

\* await fetchArticleContent(link): the request fails and null comes back
FetchFails ==
  /\ pc = "loop"
  /\ i < Len(links)
  /\ events' = Append(events, Event("fetch", i, "", FALSE))
  /\ article' = NoArticle
  /\ i' = i + 1
  /\ UNCHANGED <<prompt, pc, env, useOpenAI, useClaude, csvState, csvContent, links, doc,
                 response, debriefings, report, exitCode>>

\* await fetchArticleContent(link): the page arrives and is extracted
FetchSucceeds ==
  /\ pc = "loop"
  /\ i < Len(links)
  /\ events' = Append(events, Event("fetch", i, "", TRUE))
  /\ doc' = MainDoc
  /\ article' = extractArticle(links[i + 1], MainDoc)
  /\ pc' = "generate"
  /\ UNCHANGED <<prompt, env, useOpenAI, useClaude, csvState, csvContent, links, i,
                 response, debriefings, report, exitCode>>

\* a slip: generateDebriefing without its try/catch, the error reaches main's catch
GenerateFailsUncaught ==
  /\ pc = "generate"
  /\ events' = Append(events, Event("generate", i, generateProvider(useOpenAI, useClaude), FALSE))
  /\ Exit(1)
  /\ UNCHANGED <<prompt, env, useOpenAI, useClaude, csvState, csvContent, links, i, doc,
                 article, response, debriefings, report>>

\* a slip: a failed generation leaves i as it is and the link is tried again
GenerateFailsRetry ==
  /\ pc = "generate"
  /\ events' = Append(events, Event("generate", i, generateProvider(useOpenAI, useClaude), FALSE))
  /\ pc' = "loop"
  /\ UNCHANGED <<prompt, env, useOpenAI, useClaude, csvState, csvContent, links, i, doc,
                 article, response, debriefings, report, exitCode>>

\* await generateDebriefing(article): the provider call throws, null comes back
GenerateFails ==
  /\ pc = "generate"
  /\ events' = Append(events, Event("generate", i, generateProvider(useOpenAI, useClaude), FALSE))
  /\ i' = i + 1
  /\ pc' = "loop"
  /\ UNCHANGED <<prompt, env, useOpenAI, useClaude, csvState, csvContent, links, doc,
                 article, response, debriefings, report, exitCode>>

\* await generateDebriefing(article): the provider answers; debriefings.push
\* (the prompt sent is a local of generateDebriefing; SpecPrompt follows it)
GenerateSucceeds ==
  /\ pc = "generate"
  /\ \E resp \in (IF generateProvider(useOpenAI, useClaude) = "OpenAI"
                  THEN OpenAIResponses ELSE ClaudeResponses) :
        /\ response' = resp
        /\ debriefings' = Append(debriefings,
                                 makeDebriefing(article, generateProvider(useOpenAI, useClaude) = "OpenAI", resp))
  /\ events' = Append(events, Event("generate", i, generateProvider(useOpenAI, useClaude), TRUE))
  /\ pc' = "delay"
  /\ UNCHANGED <<prompt, env, useOpenAI, useClaude, csvState, csvContent, links, i, doc,
                 article, report, exitCode>>

\* the 1000 ms timer at the end of a successful iteration
Delay ==
  /\ pc = "delay"
  /\ events' = Append(events, Event("delay", i, "", TRUE))
  /\ i' = i + 1
  /\ pc' = "loop"
  /\ UNCHANGED <<prompt, env, useOpenAI, useClaude, csvState, csvContent, links, doc,
                 article, response, debriefings, report, exitCode>>

\* after the loop: saveDebriefings writes the file, main logs the count and
\* returns, and the process ends with status 0
SaveSucceeds ==
  /\ pc = "loop"
  /\ i >= Len(links)
  /\ report' = renderDebriefings(debriefings)
  /\ events' = Append(Append(events, Event("save", Len(debriefings), "", TRUE)),
                      Event("count", Len(debriefings), "", TRUE))
  /\ exitCode' = 0
  /\ pc' = "done"
  /\ UNCHANGED <<prompt, env, useOpenAI, useClaude, csvState, csvContent, links, i, doc,
                 article, response, debriefings>>

\* after the loop: fs.writeFileSync throws inside saveDebriefings and main's
\* catch ends the process
SaveFails ==
  /\ pc = "loop"
  /\ i >= Len(links)
  /\ events' = Append(events, Event("save", Len(debriefings), "", FALSE))
  /\ Exit(1)
  /\ UNCHANGED <<prompt, env, useOpenAI, useClaude, csvState, csvContent, links, i, doc,
                 article, response, debriefings, report>>

Next ==
  \/ Startup
  \/ MainStart
  \/ ReadLinks
  \/ FetchFails
  \/ FetchSucceeds
  \/ GenerateFails
  \/ GenerateSucceeds
  \/ Delay
  \/ SaveSucceeds
  \/ SaveFails

Spec == Init /\ [][Next]_vars

\* the awaited steps of the loop and the final write
LoopStep ==
  \/ FetchFails
  \/ FetchSucceeds
  \/ GenerateFails
  \/ GenerateSucceeds
  \/ Delay
  \/ SaveSucceeds
  \/ SaveFails

\* every awaited call of a started run settles: the request has a timeout,
\* the provider clients have theirs, the timer fires, the write returns
FairSpec == Spec /\ WF_vars(Startup) /\ WF_vars(MainStart) /\ WF_vars(LoopStep)

----------------------------------------------------------------------------
(* Properties of main *)

EventsOf(op) == SelectSeq(events, LAMBDA e : e.op = op)

Happened(op, idx, ok) ==
  \E k \in 1..Len(events) : events[k].op = op /\ events[k].idx = idx /\ events[k].ok = ok

Terminated == pc \in {"done", "exited"}

\* saveDebriefings has been called
SaveCalled == EventsOf("save") # <<>>

\* the 0-based indices of the links whose fetch and generation both succeeded
SucceededIdx ==
  SelectSeq([k \in 1..Len(links) |-> k - 1],
            LAMBDA j : Happened("fetch", j, TRUE) /\ Happened("generate", j, TRUE))

\* C1: when main hands the debriefings to saveDebriefings, they are the links
\* whose fetch and generation both succeeded, one entry each, in row order,
\* and every link has been fetched, in row order, whatever failed before it.
C1_DebriefingsAreSucceededLinks ==
  SaveCalled =>
    /\ Len(debriefings) = Len(SucceededIdx)
    /\ \A k \in 1..Len(debriefings) : debriefings[k].url = links[SucceededIdx[k] + 1]
    /\ [k \in 1..Len(EventsOf("fetch")) |-> EventsOf("fetch")[k].idx]
         = [k \in 1..Len(links) |-> k - 1]

C1_Witness ==
  /\ pc = "done"
  /\ Len(links) = 2
  /\ links[1] # links[2]
  /\ Happened("fetch", 0, FALSE)
  /\ Happened("generate", 1, TRUE)
  /\ Len(debriefings) = 1

\* the run got past the fatal checks: the CSV was read and has a link
PastFatal == Happened("read", 0, TRUE) /\ Len(links) > 0

\* C3: each fatal condition ends the process with a non-zero status: no
\* credential (at module load), a missing CSV, a CSV without a link.
C3_FatalConditionsExitNonZero ==
  /\ (pc # "load" /\ ~Truthy(env.OPENAI_API_KEY) /\ ~Truthy(env.ANTHROPIC_API_KEY))
        => (pc = "exited" /\ exitCode = 1 /\ events = <<>>)
  /\ (pc \notin {"load", "main"} /\ csvState = "missing")
        => (pc = "exited" /\ exitCode = 1 /\ events = <<>>)
  /\ (Happened("read", 0, TRUE) /\ links = <<>>)
        => (pc = "exited" /\ exitCode # 0 /\ exitCode # NoExit
            /\ EventsOf("fetch") = <<>> /\ ~SaveCalled)

C3_Witness ==
  /\ pc = "exited"
  /\ exitCode = 1
  /\ csvState = "ok"
  /\ csvContent # <<>>
  /\ Happened("read", 0, TRUE)
  /\ links = <<>>

\* C4 as claimed: a run past the fatal checks that has ended has written the
\* report once and ended with status 0.
C4_PastFatalEndsWithZero ==
  (PastFatal /\ Terminated) =>
    /\ exitCode = 0
    /\ Len(EventsOf("save")) = 1
    /\ report = renderDebriefings(debriefings)

\* what a finished run past the fatal checks has done
C4_Outcome ==
  (PastFatal /\ Terminated) =>
    /\ Len(EventsOf("save")) = 1
    /\ events[Len(events)].op \in {"save", "count"}
    /\ IF Happened("save", Len(debriefings), TRUE)
       THEN /\ pc = "done"
            /\ exitCode = 0
            /\ report = renderDebriefings(debriefings)
            /\ events[Len(events)] = Event("count", Len(SucceededIdx), "", TRUE)
       ELSE /\ pc = "exited"
            /\ exitCode = 1
            /\ report = Null

\* C4, amended: a run past the fatal checks always finishes the loop and calls
\* saveDebriefings once, whatever fetches and generations failed; when the file
\* write succeeds the report (possibly empty) is written, the count is the
\* number of debriefings out of the number of links and the status is 0; when
\* the write throws, main's catch ends the process with status 1.
C4_RunCompletes ==
  /\ [](C4_Outcome)
  /\ (PastFatal ~> (Terminated /\ SaveCalled))

C4_Witness ==
  /\ pc = "done"
  /\ exitCode = 0
  /\ Len(links) = 2
  /\ debriefings = <<>>
  /\ report = <<>>
  /\ Happened("fetch", 0, FALSE)
  /\ Happened("generate", 1, FALSE)

\* C5: one provider serves the whole run: OpenAI when its key is set, whatever
\* the Claude key, otherwise Claude; the flags are those of module load and
\* every generateDebriefing call goes to that provider.
C5_OneProviderPerRun ==
  LET chosen == IF Truthy(env.OPENAI_API_KEY) THEN "OpenAI" ELSE "Claude"
  IN  /\ \A k \in 1..Len(events) :
            events[k].op = "generate" => events[k].provider = chosen
      /\ pc \notin {"load", "exited"} =>
            /\ useOpenAI = Truthy(env.OPENAI_API_KEY)
            /\ useClaude = Truthy(env.ANTHROPIC_API_KEY)
            /\ (chosen = "Claude" => Truthy(env.ANTHROPIC_API_KEY))

C5_Witness ==
  /\ Truthy(env.OPENAI_API_KEY)
  /\ Truthy(env.ANTHROPIC_API_KEY)
  /\ Len(EventsOf("generate")) = 2
  /\ \A k \in 1..2 : EventsOf("generate")[k].provider = "OpenAI"

\* the text the provider returned, Undefined when the response carries none
ReturnedText ==
  IF generateProvider(useOpenAI, useClaude) = "OpenAI" THEN response.content
  ELSE IF response.block.type = "text" THEN response.block.text
  ELSE Undefined

\* C8: a Debriefing that generateDebriefing returns has as summary the returned
\* text trimmed when that is not empty, and the sentinel otherwise; never ''.
C8_SummaryNeverEmpty ==
  pc = "delay" =>
    LET summary == debriefings[Len(debriefings)].summary
    IN  /\ summary # <<>>
        /\ summary = IF ReturnedText # Undefined /\ Trim(ReturnedText) # <<>>
                     THEN Trim(ReturnedText)
                     ELSE TxtNoSummary

----------------------------------------------------------------------------
(* readCSVLinks on its own *)

CsvLineSet ==
  { KeyUrl, KeyURL, <<" ">> \o KeyLinkCap \o <<" ">>, <<"L", "I", "N", "K">>,
    UrlA, <<" ">> \o UrlB \o <<" ">>, <<>>, <<" ", " ">>,
    UrlA \o <<",", "x">>, <<",">> \o UrlB }

InitCSV ==
  /\ pc = "csv_call"
  /\ env = [OPENAI_API_KEY |-> <<"s", "k">>, ANTHROPIC_API_KEY |-> Undefined]
  /\ csvState \in {"ok", "unreadable"}
  /\ \E f \in FilesOver(CsvLineSet, MaxLines) : csvContent \in {f, f \o <<NL>>}
  /\ Idle

\* one call of readCSVLinks, until its promise settles
CallReadCSVLinks ==
  /\ pc = "csv_call"
  /\ LET r == readCSVLinks(csvState = "ok", csvContent)
     IN  /\ links' = r.links
         /\ events' = <<Event("read", 0, "", r.status = "resolved")>>
  /\ pc' = "csv_return"
  /\ UNCHANGED <<prompt, env, useOpenAI, useClaude, csvState, csvContent, i, doc, article,
                 response, debriefings, report, exitCode>>

NextCSV == CallReadCSVLinks

SpecCSV == InitCSV /\ [][NextCSV]_vars

UpperChars == <<"A", "B", "C", "D", "E", "F", "G", "H", "I", "J", "K", "L", "M", "N", "O", "P", "Q", "R", "S", "T", "U", "V", "W", "X", "Y", "Z">>
LowerChars == <<"a", "b", "c", "d", "e", "f", "g", "h", "i", "j", "k", "l", "m", "n", "o", "p", "q", "r", "s", "t", "u", "v", "w", "x", "y", "z">>

\* String.prototype.toLowerCase on the letters A-Z
ToLowerCase(s) ==
  [k \in 1..Len(s) |->
     IF \E c \in 1..26 : UpperChars[c] = s[k]
     THEN LowerChars[CHOOSE c \in 1..26 : UpperChars[c] = s[k]]
     ELSE s[k]]

\* the file's lines as the text shows them: the pieces between newlines
TextLines(content) ==
  IF content = <<>> THEN <<>>
  ELSE IF content[Len(content)] = NL
       THEN Split(SubSeq(content, 1, Len(content) - 1), NL)
       ELSE Split(content, NL)

\* the first line, trimmed, is url or link in any letter case
FirstLineIsHeader(content) ==
  /\ TextLines(content) # <<>>
  /\ ToLowerCase(Trim(TextLines(content)[1])) \in {KeyUrl, KeyLink}

\* the first field of a line: the text before the first comma
FirstField(line) == Split(line, ",")[1]

\* the first fields of the lines from number n on, trimmed, in order; a line
\* whose first field is blank names no URL
RECURSIVE FirstFieldsFrom(_, _)
FirstFieldsFrom(ls, n) ==
  IF n > Len(ls) THEN <<>>
  ELSE (IF Trim(FirstField(ls[n])) = <<>> THEN <<>> ELSE <<Trim(FirstField(ls[n]))>>)
       \o FirstFieldsFrom(ls, n + 1)

\* the links that name a URL (an empty link names none)
UrlLinks == SelectSeq(links, LAMBDA l : l # <<>>)

Resolved == Happened("read", 0, TRUE)

\* C2: a file whose first line is not the header url/link yields the first
\* field of every line, the first line included.
C2_HeaderlessEmitsEveryRow ==
  (pc = "csv_return" /\ Resolved /\ ~FirstLineIsHeader(csvContent)) =>
    UrlLinks = FirstFieldsFrom(TextLines(csvContent), 1)

\* C6: a file whose first line is the header url/link (any case, trimmed)
\* yields the first field of every later line, in order, and not the header.
C6_HeaderNotEmitted ==
  (pc = "csv_return" /\ Resolved /\ FirstLineIsHeader(csvContent)) =>
    UrlLinks = FirstFieldsFrom(TextLines(csvContent), 2)

C6_Witness ==
  /\ pc = "csv_return"
  /\ csvContent = <<"L", "I", "N", "K">> \o <<NL>> \o UrlA \o <<NL, " ">> \o UrlB \o <<" ">>
  /\ links = <<UrlA, UrlB>>

\* C10: an empty file resolves with no link and raises no error.
C10_EmptyFileGivesNoLinks ==
  (pc = "csv_return" /\ csvState = "ok" /\ csvContent = <<>>) =>
    (Resolved /\ links = <<>>)

C10_Witness ==
  /\ pc = "csv_return"
  /\ csvState = "ok"
  /\ csvContent = <<>>
  /\ events = <<Event("read", 0, "", TRUE)>>

----------------------------------------------------------------------------
(* saveDebriefings on its own *)

TxtInjected == TxtArticleOpen \o <<"7">> \o TxtArticleClose

DebriefingSet ==
  [url : {UrlA, UrlB}, title : {<<"T">>, TxtNoTitle},
   summary : {<<"o", "k">>, TxtNoSummary, TxtInjected}]

InitSave ==
  /\ pc = "save_call"
  /\ env = [OPENAI_API_KEY |-> <<"s", "k">>, ANTHROPIC_API_KEY |-> Undefined]
  /\ csvState = "ok"
  /\ csvContent = <<>>
  /\ useOpenAI = FALSE
  /\ useClaude = FALSE
  /\ links = <<>>
  /\ i = 0
  /\ doc = <<>>
  /\ article = NoArticle
  /\ prompt = <<>>
  /\ response = NoResponse
  /\ \E n \in 0..MaxDebriefings : debriefings \in [1..n -> DebriefingSet]
  /\ report = Null
  /\ exitCode = NoExit
  /\ events = <<>>

\* one call of saveDebriefings; report is the text given to fs.writeFileSync
CallSaveDebriefings ==
  /\ pc = "save_call"
  /\ report' = renderDebriefings(debriefings)
  /\ pc' = "save_return"
  /\ UNCHANGED <<prompt, env, useOpenAI, useClaude, csvState, csvContent, links, i, doc,
                 article, response, debriefings, exitCode, events>>

NextSave == CallSaveDebriefings

SpecSave == InitSave /\ [][NextSave]_vars

IsDigit(c) == \E k \in 1..10 : DigitChars[k] = c

DigitValue(c) == (CHOOSE k \in 1..10 : DigitChars[k] = c) - 1

\* the number of digits of text from position p on
RECURSIVE DigitRun(_, _)
DigitRun(text, p) ==
  IF p <= Len(text) /\ IsDigit(text[p]) THEN 1 + DigitRun(text, p + 1) ELSE 0

RECURSIVE ParseNumber(_)
ParseNumber(ds) ==
  IF ds = <<>> THEN 0
  ELSE 10 * ParseNumber(SubSeq(ds, 1, Len(ds) - 1)) + DigitValue(ds[Len(ds)])

\* the pattern === ARTICLE k === stands at position p of text
HeaderAt(text, p) ==
  /\ HasAt(text, TxtArticleOpen, p)
  /\ DigitRun(text, p + Len(TxtArticleOpen)) > 0
  /\ HasAt(text, TxtArticleClose,
           p + Len(TxtArticleOpen) + DigitRun(text, p + Len(TxtArticleOpen)))

HeaderNumber(text, p) ==
  ParseNumber(SubSeq(text, p + Len(TxtArticleOpen),
                     p + Len(TxtArticleOpen) + DigitRun(text, p + Len(TxtArticleOpen)) - 1))

\* the positions of the occurrences of the pattern, ascending
HeaderPositions(text) ==
  SelectSeq([p \in 1..Len(text) |-> p], LAMBDA p : HeaderAt(text, p))

\* the fields of an entry as they follow its header line
EntryBody(d) ==
  <<NL>> \o TxtUrl \o d.url \o <<NL>> \o TxtTitle \o d.title \o <<NL, NL>>
  \o TxtDebriefing \o <<NL>> \o d.summary \o <<NL>>

\* C7: the text for N debriefings holds the pattern === ARTICLE k === exactly
\* N times, for k = 1..N in ascending order, the k-th followed by the url,
\* title and summary of the k-th debriefing.
C7_ExactlyNArticleHeaders ==
  pc = "save_return" =>
    LET ps == HeaderPositions(report)
    IN  /\ Len(ps) = Len(debriefings)
        /\ \A k \in 1..Len(ps) :
              /\ HeaderNumber(report, ps[k]) = k
              /\ HasAt(report, EntryBody(debriefings[k]),
                       ps[k] + Len(TxtArticleOpen) + Len(NumToString(k)) + Len(TxtArticleClose))

----------------------------------------------------------------------------
(* fetchArticleContent on its own *)

NodeKinds ==
  { Selector("article", ""), Selector("div", "content"), Selector("main", ""),
    Selector("div", ""), Selector("script", "") }

NodeLetters == <<"a", "b", "c", "d", "e">>

\* the text of element number k when it has text: its own letter, in white space
NodeText(k) == <<" ", NodeLetters[k], NL, " ", NodeLetters[k], " ">>

\* the elements k may be the child of: the element before it and that one's
\* ancestors up to the body; a script holds no element
RECURSIVE OpenElements(_, _)
OpenElements(d, k) ==
  IF k = 0 THEN {0}
  ELSE (IF d[k].tag = "script" THEN {} ELSE {k}) \cup OpenElements(d, d[k].parent)

\* what element number n may be: a script always holds text
NodeShapes(n) ==
  {sh \in [kind : NodeKinds, text : {<<>>, NodeText(n)}] :
     sh.kind.tag = "script" => sh.text # <<>>}

InitFetch ==
  /\ pc = "fetch_call"
  /\ env = [OPENAI_API_KEY |-> <<"s", "k">>, ANTHROPIC_API_KEY |-> Undefined]
  /\ csvState = "ok"
  /\ csvContent = <<>>
  /\ useOpenAI = FALSE
  /\ useClaude = FALSE
  /\ links = <<UrlA>>
  /\ i = 0
  /\ doc = <<>>
  /\ article = NoArticle
  /\ prompt = <<>>
  /\ response = NoResponse
  /\ debriefings = <<>>
  /\ report = Null
  /\ exitCode = NoExit
  /\ events = <<>>

\* the page the server will answer with gets one more element
PageGrows ==
  /\ pc = "fetch_call"
  /\ Len(doc) < MaxNodes
  /\ \E sh \in NodeShapes(Len(doc) + 1), parent \in OpenElements(doc, Len(doc)) :
        doc' = Append(doc, [tag |-> sh.kind.tag, class |-> sh.kind.class,
                            text |-> sh.text, parent |-> parent])
  /\ UNCHANGED <<prompt, pc, env, useOpenAI, useClaude, csvState, csvContent, links, i,
                 article, response, debriefings, report, exitCode, events>>

\* one call of fetchArticleContent whose request returns the document
CallFetchReturns ==
  /\ pc = "fetch_call"
  /\ article' = extractArticle(links[1], doc)
  /\ events' = <<Event("fetch", 0, "", TRUE)>>
  /\ pc' = "fetch_return"
  /\ UNCHANGED <<prompt, env, useOpenAI, useClaude, csvState, csvContent, links, i, doc,
                 response, debriefings, report, exitCode>>

\* one call of fetchArticleContent whose request throws: the catch returns null
CallFetchThrows ==
  /\ pc = "fetch_call"
  /\ article' = NoArticle
  /\ events' = <<Event("fetch", 0, "", FALSE)>>
  /\ pc' = "fetch_return"
  /\ UNCHANGED <<prompt, env, useOpenAI, useClaude, csvState, csvContent, links, i, doc,
                 response, debriefings, report, exitCode>>

NextFetch == PageGrows \/ CallFetchReturns \/ CallFetchThrows

SpecFetch == InitFetch /\ [][NextFetch]_vars

\* the clean-up every extracted text goes through
CleanUp(text) == Substring0(Trim(CollapseWhiteSpace(Trim(text))), MaxContentLength)

HasMatch(d, s) == Select(d, contentSelectors[s]) # <<>>

AnyMatch(d) == \E s \in 1..Len(contentSelectors) : HasMatch(d, s)

\* the first selector of the fixed order that matches an element
FirstMatching(d) ==
  CHOOSE s \in 1..Len(contentSelectors) :
    HasMatch(d, s) /\ \A t \in 1..(s - 1) : ~HasMatch(d, t)

MatchText(d, s) == SelectionText(d, Select(d, contentSelectors[s]))

\* C9 as claimed: the content is the text of the first matching selector, so
\* the text of the article match when there is one, and the body's text only
\* when no selector matches.
C9_FirstMatchAlwaysUsed ==
  (pc = "fetch_return" /\ article # NoArticle) =>
    article.content = IF AnyMatch(doc)
                      THEN CleanUp(MatchText(doc, FirstMatching(doc)))
                      ELSE CleanUp(ElementText(doc, 0))

\* C9, amended: the content is the text of the first matching selector when
\* that text is not empty after trimming, later selectors are never tried, and
\* the body's text is used when no selector matches or when the text of the
\* first matching selector is empty after trimming.
C9_FirstMatchUsedUnlessEmpty ==
  (pc = "fetch_return" /\ article # NoArticle) =>
    article.content = IF AnyMatch(doc) /\ Trim(MatchText(doc, FirstMatching(doc))) # <<>>
                      THEN CleanUp(MatchText(doc, FirstMatching(doc)))
                      ELSE CleanUp(ElementText(doc, 0))

C9_Witness ==
  /\ pc = "fetch_return"
  /\ article # NoArticle
  /\ Len(doc) = 3
  /\ doc[1].tag = "div" /\ doc[1].class = "content" /\ doc[1].text # <<>>
  /\ doc[2].tag = "article" /\ doc[2].parent = 0 /\ doc[2].text # <<>>
  /\ doc[3].tag = "div" /\ doc[3].class = "" /\ doc[3].parent = 0 /\ doc[3].text # <<>>
  /\ article.content = <<"b", " ", "b">>

----------------------------------------------------------------------------
(* The order of the calls main makes *)

\* the calls of the loop, in the order main made them
LoopEvents == SelectSeq(events, LAMBDA e : e.op \in {"fetch", "generate", "delay"})

\* C11: the fetch of every link but the first starts only after the delay that
\* follows the link before it, whether that link was processed or skipped.
C11_DelayBeforeEveryNextFetch ==
  \A k \in 1..Len(LoopEvents) :
    (LoopEvents[k].op = "fetch" /\ LoopEvents[k].idx > 0) =>
      LoopEvents[k - 1] = Event("delay", LoopEvents[k].idx - 1, "", TRUE)

\* the calls made for link number j (0-based)
CallsFor(op, j) == SelectSeq(events, LAMBDA e : e.op = op /\ e.idx = j)

\* C15: every link is fetched once and only once, generateDebriefing is called
\* at most once per link and only right after that link's fetch succeeded, and
\* the calls for a link all come before the fetch of the next link: no two
\* calls overlap.
C15_SequentialOncePerLink ==
  /\ \A j \in 0..(Len(links) - 1) :
        /\ Len(CallsFor("fetch", j)) <= 1
        /\ Len(CallsFor("generate", j)) <= 1
        /\ SaveCalled => Len(CallsFor("fetch", j)) = 1
  /\ \A k \in 1..Len(LoopEvents) :
        /\ LoopEvents[k].idx \in 0..(Len(links) - 1)
        /\ LoopEvents[k].op = "generate" =>
              (k > 1 /\ LoopEvents[k - 1] = Event("fetch", LoopEvents[k].idx, "", TRUE))
        /\ LoopEvents[k].op = "fetch" =>
              /\ LoopEvents[k].idx =
                   Len(SelectSeq(SubSeq(LoopEvents, 1, k - 1), LAMBDA e : e.op = "fetch"))
              /\ \A m \in 1..(k - 1) : LoopEvents[m].idx < LoopEvents[k].idx
  /\ pc = "generate" => (LoopEvents # <<>> /\ LoopEvents[Len(LoopEvents)] = Event("fetch", i, "", TRUE))
  /\ pc = "delay" => (LoopEvents # <<>> /\ LoopEvents[Len(LoopEvents)].op = "generate"
                      /\ LoopEvents[Len(LoopEvents)].idx = i)

C15_Witness ==
  /\ pc = "done"
  /\ Len(links) = 2
  /\ Happened("fetch", 0, TRUE)
  /\ Happened("generate", 0, FALSE)
  /\ Happened("fetch", 1, TRUE)
  /\ Happened("generate", 1, TRUE)

----------------------------------------------------------------------------
(* The links readCSVLinks returns *)

\* the trimmed resolved values of the rows, in row order, a row whose value is
\* absent, empty or white space only leaving nothing
RECURSIVE TrimmedValues(_)
TrimmedValues(rows) ==
  IF rows = <<>> THEN <<>>
  ELSE TrimmedValues(SubSeq(rows, 1, Len(rows) - 1))
       \o (IF rowUrl(rows[Len(rows)]) = Undefined \/ Trim(rowUrl(rows[Len(rows)])) = <<>>
           THEN <<>>
           ELSE <<Trim(rowUrl(rows[Len(rows)]))>>)

\* C13: every link returned is a trimmed, non-empty string: a row whose value
\* is empty, absent or white space only gives no link, and the links are the
\* values of the other rows in row order, duplicates kept.
C13_LinksTrimmedNonEmpty ==
  (pc = "csv_return" /\ Resolved) =>
    /\ \A k \in 1..Len(links) : links[k] # <<>> /\ Trim(links[k]) = links[k]
    /\ links = TrimmedValues(csvRows(csvContent))

----------------------------------------------------------------------------
(* The lines of the report *)

ReportLines == Split(report, NL)

DividerLine == Repeat("=", DividerWidth)

HeaderLine(k) == TxtArticleOpen \o NumToString(k) \o TxtArticleClose

\* the numbers of the lines that are a divider, ascending
DividerLineNumbers ==
  SelectSeq([j \in 1..Len(ReportLines) |-> j], LAMBDA j : ReportLines[j] = DividerLine)

\* C14 as claimed: exactly one empty line stands between the divider line of
\* entry k and the header line of entry k + 1.
C14_OneBlankLineBetweenEntries ==
  (pc = "save_return" /\ Len(debriefings) >= 2) =>
    /\ Len(DividerLineNumbers) = Len(debriefings)
    /\ \A k \in 1..(Len(debriefings) - 1) :
          LET j == DividerLineNumbers[k]
          IN  /\ ReportLines[j + 1] = <<>>
              /\ ReportLines[j + 2] = HeaderLine(k + 1)

\* C14, amended: exactly two empty lines stand between the divider line of
\* entry k and the header line of entry k + 1 (the newline that ends an entry,
\* the joining newline and the newline that opens the next entry), and the
\* entries appear in input order.
C14_TwoBlankLinesBetweenEntries ==
  (pc = "save_return" /\ Len(debriefings) >= 2) =>
    /\ Len(DividerLineNumbers) = Len(debriefings)
    /\ \A k \in 1..(Len(debriefings) - 1) :
          LET j == DividerLineNumbers[k]
          IN  /\ ReportLines[j + 1] = <<>>
              /\ ReportLines[j + 2] = <<>>
              /\ ReportLines[j + 3] = HeaderLine(k + 1)
              /\ ReportLines[j + 4] = TxtUrl \o debriefings[k + 1].url
              /\ ReportLines[j + 5] = TxtTitle \o debriefings[k + 1].title
    /\ ReportLines[2] = HeaderLine(1)
    /\ ReportLines[3] = TxtUrl \o debriefings[1].url

C14_Witness ==
  /\ pc = "save_return"
  /\ Len(debriefings) = 2
  /\ debriefings[1].url # debriefings[2].url
  /\ debriefings[1].summary = TxtInjected
  /\ Len(DividerLineNumbers) = 2

----------------------------------------------------------------------------
(* The prompt of generateDebriefing over titles and contents made of plain
   text, the template's placeholders and dollar patterns *)

MaxTokens == 2

PromptTokens == {<<"T">>, PlaceholderTitle, PlaceholderContent, <<"$", "&">>, <<"$", "$">>}

RECURSIVE TextsOf(_)
TextsOf(n) ==
  IF n = 0 THEN {<<>>}
  ELSE TextsOf(n - 1) \cup {t \o k : t \in TextsOf(n - 1), k \in PromptTokens}

InitPrompt ==
  /\ pc = "prompt_call"
  /\ env = [OPENAI_API_KEY |-> <<"s", "k">>, ANTHROPIC_API_KEY |-> Undefined]
  /\ csvState = "ok"
  /\ csvContent = <<>>
  /\ useOpenAI = FALSE
  /\ useClaude = FALSE
  /\ links = <<>>
  /\ i = 0
  /\ doc = <<>>
  /\ \E title \in TextsOf(MaxTokens) \ {<<>>}, content \in TextsOf(MaxTokens) :
       article = [url |-> UrlA, title |-> title, content |-> content]
  /\ prompt = <<>>
  /\ response = NoResponse
  /\ debriefings = <<>>
  /\ report = Null
  /\ exitCode = NoExit
  /\ events = <<>>

\* generateDebriefing up to the provider call: the prompt is a local constant
\* of the function, handed to the provider and kept nowhere else
CallBuildPrompt ==
  /\ pc = "prompt_call"
  /\ prompt' = buildPrompt(article.title, article.content)
  /\ pc' = "prompt_return"
  /\ UNCHANGED <<env, useOpenAI, useClaude, csvState, csvContent, links, i, doc,
                 article, response, debriefings, report, exitCode, events>>

NextPrompt == CallBuildPrompt

SpecPrompt == InitPrompt /\ [][NextPrompt]_vars

TitleAt == IndexOf(CUSTOM_PROMPT, PlaceholderTitle)
ContentAt == IndexOf(CUSTOM_PROMPT, PlaceholderContent)

\* the template cut at its own two placeholders, title and content put in as
\* they are
LiteralPrompt(title, content) ==
  SubSeq(CUSTOM_PROMPT, 1, TitleAt - 1) \o title
    \o SubSeq(CUSTOM_PROMPT, TitleAt + Len(PlaceholderTitle), ContentAt - 1) \o content
    \o SubSeq(CUSTOM_PROMPT, ContentAt + Len(PlaceholderContent), Len(CUSTOM_PROMPT))

\* C12: for every title and content, those holding the text {title} or
\* {content} included, the prompt is the template with its own {title}
\* replaced by the title and its own {content} by the content, both verbatim
\* and once; nothing inside the inserted texts is substituted.
C12_PromptIsLiteralSubstitution ==
  pc = "prompt_return" => prompt = LiteralPrompt(article.title, article.content)

====
